---- MODULE Spec2Model ----
(***************************************************************************)
(* Account actuators of opentron (manager/actuators/account.rs):           *)
(* AccountUpdateContract and AccountPermissionUpdateContract, each a       *)
(* validate / execute pair run serially by the Manager over the state-db,  *)
(* together with the helpers find_account_by_name and check_permission.    *)
(***************************************************************************)
EXTENDS Integers, Sequences, FiniteSets, TLC

\* ------------------------------------------------------------------ bounds

\* i64 is modelled at reduced width: the values MinI64 .. MaxI64.
MaxI64 == 7
\* Number of contracts the Manager processes in one behaviour.
MaxTx == 2
\* Longest key list enumerated exhaustively for check_permission.
MaxKeyLen == 2

MinI64 == -MaxI64 - 1

\* ------------------------------------------------------- values and options

None == [some |-> FALSE]
Some(v) == [some |-> TRUE, v |-> v]

Ok(v) == [ok |-> TRUE, v |-> v]
Err(e) == [ok |-> FALSE, e |-> e]

\* A byte string, by its content tag and its length in bytes.
Bytes(id, len) == [id |-> id, len |-> len]
\* A text string (account name, permission name), by content and byte length.
Str(s, len) == [s |-> s, len |-> len]

ADDRESS_LEN == 21
MAX_NUM_OF_KEYS_IN_PERMISSION == 5
MAX_NUM_OF_ACTIVE_PERMISSIONS == 8

\* Address::try_from(&bytes): succeeds on a well-formed (21-byte) address.
Address_try_from(b) == IF b.len = ADDRESS_LEN THEN Ok(b) ELSE Err("invalid address")

\* i64::checked_add
checked_add(a, b) == IF a + b > MaxI64 \/ a + b < MinI64 THEN None ELSE Some(a + b)

\* ContractType::from_i32(code).is_some(): the contract-type codes in use.
ContractTypeCodes ==
    (0..6) \cup (8..20) \cup (30..33) \cup (41..46) \cup {48, 49} \cup (51..59)
ContractType_defined(code) == code \in ContractTypeCodes

PermissionTypes == {"Owner", "Witness", "Active"}

\* ------------------------------------------------------- check_permission

Pow2(k) == 2 ^ k

\* (operations[type_code / 8] >> (type_code % 8)) & 1, operations 0-indexed
OperationBit(operations, type_code) ==
    (operations[(type_code \div 8) + 1] \div Pow2(type_code % 8)) % 2

Contains(seq, x) == \E i \in 1..Len(seq) : seq[i] = x

\* Mutant of check_permission_keys: the duplicate-address test is left out.
RECURSIVE check_permission_keys_nodup(_, _, _, _)
check_permission_keys_nodup(keys, i, weight_sum, addrs) ==
    IF i > Len(keys) THEN Ok(weight_sum)
    ELSE LET key == keys[i]
             sum == checked_add(weight_sum, key.weight)
         IN  IF ~Address_try_from(key.address).ok
                 THEN Err("invalid key address")
             ELSE IF key.weight <= 0
                 THEN Err("weight of key should be greater than 0")
             ELSE IF ~sum.some
                 THEN Err("math overflow")
             ELSE check_permission_keys_nodup(keys, i + 1, sum.v, Append(addrs, key.address))

\* The loop over perm.keys of check_permission: Ok(weight_sum) or the diagnostic
\* of the first failing key.
RECURSIVE check_permission_keys(_, _, _, _)
check_permission_keys(keys, i, weight_sum, addrs) ==
    IF i > Len(keys) THEN Ok(weight_sum)
    ELSE LET key == keys[i]
             sum == checked_add(weight_sum, key.weight)
         IN  IF ~Address_try_from(key.address).ok
                 THEN Err("invalid key address")
             ELSE IF key.weight <= 0
                 THEN Err("weight of key should be greater than 0")
             ELSE IF ~sum.some
                 THEN Err("math overflow")
             ELSE IF Contains(addrs, key.address)
                 THEN Err("duplicated address in keys")
             ELSE check_permission_keys(keys, i + 1, sum.v, Append(addrs, key.address))

\* The first type_code in 0..256 whose bit is set and whose contract type is
\* undefined, or -1. A zero byte has no bit set, so only the type codes of the
\* nonzero bytes are looked at.
UndefinedOperation(operations) ==
    LET nonzero == {i \in 1..32 : operations[i] # 0}
        bad == {t \in UNION {(8 * (i - 1))..(8 * (i - 1) + 7) : i \in nonzero} :
                    /\ OperationBit(operations, t) # 0
                    /\ ~ContractType_defined(t)}
    IN  IF bad = {} THEN -1 ELSE CHOOSE t \in bad : \A u \in bad : t <= u

check_permission_operations(perm, perm_type) ==
    IF perm_type \in {"Owner", "Witness"}
        THEN IF Len(perm.operations) # 0 THEN Err("no operations vec needed") ELSE Ok("unit")
    ELSE IF Len(perm.operations) = 0 \/ Len(perm.operations) # 32
        THEN Err("operations vec length must be 32")
    ELSE LET type_code == UndefinedOperation(perm.operations)
         IN  IF type_code # -1
                 THEN Err("operation of " \o ToString(type_code) \o " is undefined")
                 ELSE Ok("unit")

\* Mutant of check_permission: the weight sum is compared with the threshold
\* before the key addresses are tested for duplicates.
check_permission_sumfirst(perm, perm_type) ==
    IF Len(perm.keys) > MAX_NUM_OF_KEYS_IN_PERMISSION
        THEN Err("number of keys in permission should not be greater than "
                 \o ToString(MAX_NUM_OF_KEYS_IN_PERMISSION))
    ELSE IF Len(perm.keys) = 0
        THEN Err("no permission key provided")
    ELSE IF perm.threshold <= 0
        THEN Err("permission threshold should be greater than 0")
    ELSE IF perm.name.len > 32
        THEN Err("permission name is too long")
    ELSE IF perm.parent_id # 0
        THEN Err("parent_id must be 0(owner)")
    ELSE LET sums == check_permission_keys_nodup(perm.keys, 1, 0, <<>>)
             loop == check_permission_keys(perm.keys, 1, 0, <<>>)
         IN  IF ~sums.ok THEN sums
             ELSE IF sums.v < perm.threshold
                 THEN Err("sum of all weights should be greater than threshold")
             ELSE IF ~loop.ok THEN loop
             ELSE check_permission_operations(perm, perm_type)

check_permission(perm, perm_type) ==
    IF Len(perm.keys) > MAX_NUM_OF_KEYS_IN_PERMISSION
        THEN Err("number of keys in permission should not be greater than "
                 \o ToString(MAX_NUM_OF_KEYS_IN_PERMISSION))
    ELSE IF Len(perm.keys) = 0
        THEN Err("no permission key provided")
    ELSE IF perm.threshold <= 0
        THEN Err("permission threshold should be greater than 0")
    ELSE IF perm.name.len > 32
        THEN Err("permission name is too long")
    ELSE IF perm.parent_id # 0
        THEN Err("parent_id must be 0(owner)")
    ELSE LET loop == check_permission_keys(perm.keys, 1, 0, <<>>)
         IN  IF ~loop.ok THEN loop
             ELSE IF loop.v < perm.threshold
                 THEN Err("sum of all weights should be greater than threshold")
             ELSE check_permission_operations(perm, perm_type)

\* ------------------------------------------------------------ the state

VARIABLES
    accounts,     \* state-db, keys::Account(address) -> Option<Account>
    witnesses,    \* state-db, keys::Witness(address) -> Option<Witness>
    params,       \* state-db, keys::ChainParameter -> i64
    ctx,          \* TransactionContext of the contract being processed
    tx,           \* the contract being processed (or the last one processed)
    pc,           \* "idle" | "validated" | "crashed"
    last,         \* the phase that ran last: "none" | "validate" | "execute"
    result,       \* what that phase returned: [kind, msg]
    fault,        \* the storage operation that failed during that phase, or "none"
    ntx,          \* contracts processed so far
    perm,         \* check_permission: the descriptor under check
    perm_type,    \* check_permission: the expected PermissionType
    verdict       \* check_permission: its return value (or NotChecked)

vars == <<accounts, witnesses, params, ctx, tx, pc, last, result, fault, ntx,
          perm, perm_type, verdict>>

db == <<accounts, witnesses, params>>
permVars == <<perm, perm_type, verdict>>
managerVars == <<accounts, witnesses, params, ctx, tx, pc, last, result, fault, ntx>>

\* ------------------------------------------------------------ addresses

BLACKHOLE == Bytes("blackhole", ADDRESS_LEN)
A1 == Bytes("a1", ADDRESS_LEN)
A2 == Bytes("a2", ADDRESS_LEN)
A3 == Bytes("a3", ADDRESS_LEN)
\* a byte string that is no address (one byte short)
Malformed == Bytes("a1", ADDRESS_LEN - 1)

Addresses == {BLACKHOLE, A1, A2, A3}
\* for_each over the account family: deterministic key order
AccountScanOrder == <<A1, A2, A3, BLACKHOLE>>

\* ------------------------------------------------------------ state-db facade

\* state_db.get(&keys::Account(addr)) / keys::Witness(addr), when storage answers
state_get(family, addr) == family[addr]

\* state_db.must_get(&key): the value; a missing record is a panic
must_get(family, addr) == IF family[addr].some THEN Ok(family[addr].v) ELSE Err("panic")

\* state_db.put_key(key, value), when storage answers
put_key(family, addr, value) == [family EXCEPT ![addr] = Some(value)]

\* Account::adjust_balance(diff): checked, and a balance never goes below zero
adjust_balance(acct, diff) ==
    LET new_balance == checked_add(acct.balance, diff)
    IN  IF new_balance.some /\ new_balance.v >= 0
            THEN Ok([acct EXCEPT !.balance = new_balance.v])
            ELSE Err("unit")

\* Manager::add_to_blackhole(amount): credit the sink account's record
add_to_blackhole(accts, amount) ==
    LET blackhole_acct == accts[BLACKHOLE].v
    IN  put_key(accts, BLACKHOLE, [blackhole_acct EXCEPT !.balance = @ + amount])

\* -ctx.contract_fee: negating i64::MIN overflows, which panics in a build with
\* overflow checks and wraps to i64::MIN in one without
NegOutcomes(x) == IF x = MinI64 THEN {Err("panic"), Ok(MinI64)} ELSE {Ok(-x)}

\* ------------------------------------------------------------ find_account_by_name

RECURSIVE find_account_scan(_, _, _, _)
find_account_scan(accts, acct_name, i, found) ==
    IF i > Len(AccountScanOrder) THEN found
    ELSE LET rec == accts[AccountScanOrder[i]]
         IN  IF rec.some /\ rec.v.name = acct_name
                 THEN find_account_scan(accts, acct_name, i + 1, Some(rec.v))
                 ELSE find_account_scan(accts, acct_name, i + 1, found)

\* Mutant of find_account_by_name: a record that does not match clears what was
\* found, so only the last record visited decides.
RECURSIVE find_account_scan_last(_, _, _, _)
find_account_scan_last(accts, acct_name, i, found) ==
    IF i > Len(AccountScanOrder) THEN found
    ELSE LET rec == accts[AccountScanOrder[i]]
         IN  IF ~rec.some
                 THEN find_account_scan_last(accts, acct_name, i + 1, found)
             ELSE IF rec.v.name = acct_name
                 THEN find_account_scan_last(accts, acct_name, i + 1, Some(rec.v))
             ELSE find_account_scan_last(accts, acct_name, i + 1, None)

find_account_by_name_last(accts, acct_name) == find_account_scan_last(accts, acct_name, 1, None)

find_account_by_name(accts, acct_name) == find_account_scan(accts, acct_name, 1, None)

\* ------------------------------------------------------------ AccountUpdateContract

\* Mutant of AccountUpdate_validate: the test of the owner's present name is
\* left out.
AccountUpdate_validate_norename(c, accts, prm, flt) ==
    IF c.account_name.len > 200
        THEN [res |-> Err("invalid account name"), io |-> "none"]
    ELSE IF ~Address_try_from(c.owner_address).ok
        THEN [res |-> Err("invalid owner_address"), io |-> "none"]
    ELSE IF flt = "get_account"
        THEN [res |-> Err("db query error"), io |-> "get_account"]
    ELSE IF ~state_get(accts, c.owner_address).some
        THEN [res |-> Err("account not exists"), io |-> "none"]
    ELSE IF prm.AllowUpdateAccountName = 0
            /\ find_account_by_name(accts, c.account_name).some
        THEN [res |-> Err("the same account name already exists"), io |-> "none"]
    ELSE [res |-> Ok("unit"), io |-> "none"]

\* Mutant of AccountUpdate_validate: the requested name is not looked up among
\* the names in use.
AccountUpdate_validate_nounique(c, accts, prm, flt) ==
    IF c.account_name.len > 200
        THEN [res |-> Err("invalid account name"), io |-> "none"]
    ELSE IF ~Address_try_from(c.owner_address).ok
        THEN [res |-> Err("invalid owner_address"), io |-> "none"]
    ELSE IF flt = "get_account"
        THEN [res |-> Err("db query error"), io |-> "get_account"]
    ELSE IF ~state_get(accts, c.owner_address).some
        THEN [res |-> Err("account not exists"), io |-> "none"]
    ELSE IF state_get(accts, c.owner_address).v.name.len # 0
            /\ prm.AllowUpdateAccountName = 0
        THEN [res |-> Err("account name already exists"), io |-> "none"]
    ELSE [res |-> Ok("unit"), io |-> "none"]

\* validate: [res |-> Ok(unit) | Err(diagnostic), io |-> the storage failure met]
AccountUpdate_validate(c, accts, prm, flt) ==
    IF c.account_name.len > 200
        THEN [res |-> Err("invalid account name"), io |-> "none"]
    ELSE IF ~Address_try_from(c.owner_address).ok
        THEN [res |-> Err("invalid owner_address"), io |-> "none"]
    ELSE IF flt = "get_account"
        THEN [res |-> Err("db query error"), io |-> "get_account"]
    ELSE LET maybe_acct == state_get(accts, c.owner_address)
             allow_update_account_name == prm.AllowUpdateAccountName # 0
         IN  IF ~maybe_acct.some
                 THEN [res |-> Err("account not exists"), io |-> "none"]
             ELSE IF maybe_acct.v.name.len # 0 /\ ~allow_update_account_name
                 THEN [res |-> Err("account name already exists"), io |-> "none"]
             ELSE IF ~allow_update_account_name
                     /\ find_account_by_name(accts, c.account_name).some
                 THEN [res |-> Err("the same account name already exists"), io |-> "none"]
             ELSE [res |-> Ok("unit"), io |-> "none"]

\* execute: [kind |-> "success" | "err" | "panic", io, accounts] with the account
\* family as execute leaves it
AccountUpdate_execute(c, accts, flt) ==
    IF ~Address_try_from(c.owner_address).ok \/ ~must_get(accts, c.owner_address).ok
        THEN [kind |-> "panic", io |-> "none", accounts |-> accts]
    ELSE LET owner_acct == [must_get(accts, c.owner_address).v EXCEPT !.name = c.account_name]
         IN  IF flt = "put_account"
                 THEN [kind |-> "err", io |-> "put_account", accounts |-> accts]
                 ELSE [kind |-> "success", io |-> "none",
                       accounts |-> put_key(accts, c.owner_address, owner_acct)]

\* ------------------------------------------------ AccountPermissionUpdateContract

\* fee(): the chain parameter AccountPermissionUpdateFee
AccountPermissionUpdate_fee(prm) == prm.AccountPermissionUpdateFee

\* for active in &self.actives { check_permission(active, Active)? }
RECURSIVE check_actives(_, _)
check_actives(actives, i) ==
    IF i > Len(actives) THEN Ok("unit")
    ELSE LET checked == check_permission(actives[i], "Active")
         IN  IF ~checked.ok THEN checked ELSE check_actives(actives, i + 1)

\* Mutant of AccountPermissionUpdate_validate_tail: a witness permission
\* supplied for an account that is not a witness is ignored.
AccountPermissionUpdate_validate_tail_lenient(c, acct, is_witness, prm) ==
    LET fee == AccountPermissionUpdate_fee(prm)
        witness_checked == check_permission(c.witness.v, "Witness")
        owner_checked == check_permission(c.owner.v, "Owner")
        actives_checked == check_actives(c.actives, 1)
    IN  IF is_witness /\ ~c.witness.some
            THEN Err("missing witness permission")
        ELSE IF is_witness /\ ~witness_checked.ok
            THEN witness_checked
        ELSE IF Len(c.actives) = 0
            THEN Err("missing active permissions")
        ELSE IF Len(c.actives) > MAX_NUM_OF_ACTIVE_PERMISSIONS
            THEN Err("too many active permissions")
        ELSE IF ~owner_checked.ok
            THEN owner_checked
        ELSE IF ~actives_checked.ok
            THEN actives_checked
        ELSE IF acct.balance < fee
            THEN Err("insufficient balance to set account permission")
        ELSE Ok(fee)

\* The part of validate after the witness lookup (lines 88-117).
AccountPermissionUpdate_validate_tail(c, acct, is_witness, prm) ==
    LET fee == AccountPermissionUpdate_fee(prm)
        witness_checked == check_permission(c.witness.v, "Witness")
        owner_checked == check_permission(c.owner.v, "Owner")
        actives_checked == check_actives(c.actives, 1)
    IN  IF is_witness /\ ~c.witness.some
            THEN Err("missing witness permission")
        ELSE IF is_witness /\ ~witness_checked.ok
            THEN witness_checked
        ELSE IF ~is_witness /\ c.witness.some
            THEN Err("account is not a witness")
        ELSE IF Len(c.actives) = 0
            THEN Err("missing active permissions")
        ELSE IF Len(c.actives) > MAX_NUM_OF_ACTIVE_PERMISSIONS
            THEN Err("too many active permissions")
        ELSE IF ~owner_checked.ok
            THEN owner_checked
        ELSE IF ~actives_checked.ok
            THEN actives_checked
        ELSE IF acct.balance < fee
            THEN Err("insufficient balance to set account permission")
        ELSE Ok(fee)

\* Mutant of AccountPermissionUpdate_validate: the AllowMultisig gate is tested
\* after the owner address.
AccountPermissionUpdate_validate_gate_late(c, accts, wits, prm, flt) ==
    IF ~Address_try_from(c.owner_address).ok
        THEN [res |-> Err("invalid owner_address"), io |-> "none"]
    ELSE IF prm.AllowMultisig = 0
        THEN [res |-> Err("multisig is disabled on chain"), io |-> "none"]
    ELSE IF flt = "get_account"
        THEN [res |-> Err("db query error"), io |-> "get_account"]
    ELSE IF ~state_get(accts, c.owner_address).some
        THEN [res |-> Err("account not exists"), io |-> "none"]
    ELSE IF ~c.owner.some
        THEN [res |-> Err("missing owner permission"), io |-> "none"]
    ELSE IF flt = "get_witness"
        THEN [res |-> Err("error while querying db"), io |-> "get_witness"]
    ELSE [res |-> AccountPermissionUpdate_validate_tail(
                      c, state_get(accts, c.owner_address).v,
                      state_get(wits, c.owner_address).some, prm),
          io |-> "none"]

\* validate: [res |-> Ok(fee recorded in ctx.contract_fee) | Err(diagnostic), io]
AccountPermissionUpdate_validate(c, accts, wits, prm, flt) ==
    IF prm.AllowMultisig = 0
        THEN [res |-> Err("multisig is disabled on chain"), io |-> "none"]
    ELSE IF ~Address_try_from(c.owner_address).ok
        THEN [res |-> Err("invalid owner_address"), io |-> "none"]
    ELSE IF flt = "get_account"
        THEN [res |-> Err("db query error"), io |-> "get_account"]
    ELSE IF ~state_get(accts, c.owner_address).some
        THEN [res |-> Err("account not exists"), io |-> "none"]
    ELSE IF ~c.owner.some
        THEN [res |-> Err("missing owner permission"), io |-> "none"]
    ELSE IF flt = "get_witness"
        THEN [res |-> Err("error while querying db"), io |-> "get_witness"]
    ELSE [res |-> AccountPermissionUpdate_validate_tail(
                      c, state_get(accts, c.owner_address).v,
                      state_get(wits, c.owner_address).some, prm),
          io |-> "none"]

\* proto Permission -> state OwnerPermission
ToOwnerPermission(p) ==
    [threshold |-> p.threshold,
     keys |-> [i \in 1..Len(p.keys) |->
                  [address |-> p.keys[i].address, weight |-> p.keys[i].weight]]]

\* proto Permission -> state ActivePermission
ToActivePermission(p) ==
    [threshold |-> p.threshold,
     keys |-> [i \in 1..Len(p.keys) |->
                  [address |-> p.keys[i].address, weight |-> p.keys[i].weight]],
     operations |-> p.operations,
     permission_name |-> p.name]

\* Mutant of UpdatePermissions: the permissions are stored in a record that
\* keeps the balance of the loaded account and nothing else of it.
UpdatePermissions_fresh(c, owner_acct) ==
    [name |-> Str("", 0),
     balance |-> owner_acct.balance,
     owner_permission |-> IF c.owner.some THEN Some(ToOwnerPermission(c.owner.v))
                                          ELSE owner_acct.owner_permission,
     active_permissions |-> [i \in 1..Len(c.actives) |-> ToActivePermission(c.actives[i])]]

\* Mutant of UpdatePermissions: the supplied active permissions are appended to
\* the stored ones.
UpdatePermissions_append(c, owner_acct) ==
    [owner_acct EXCEPT
        !.owner_permission = IF c.owner.some THEN Some(ToOwnerPermission(c.owner.v)) ELSE @,
        !.active_permissions =
            @ \o [i \in 1..Len(c.actives) |-> ToActivePermission(c.actives[i])]]

\* updatePermissions (lines 124-155) on the loaded copy of the owner's account
UpdatePermissions(c, owner_acct) ==
    [owner_acct EXCEPT
        !.owner_permission = IF c.owner.some THEN Some(ToOwnerPermission(c.owner.v)) ELSE @,
        !.active_permissions = [i \in 1..Len(c.actives) |-> ToActivePermission(c.actives[i])]]

Outcome(kind, io, accts, wits) ==
    [kind |-> kind, io |-> io, accounts |-> accts, witnesses |-> wits]

\* Mutant of AccountPermissionUpdate_execute_fee: the error of the account
\* write is dropped and execute reports success.
AccountPermissionUpdate_execute_fee_swallow(c, contract_fee, owner_acct, accts, wits, flt, neg) ==
    IF contract_fee # 0
        THEN IF ~neg.ok \/ ~adjust_balance(owner_acct, neg.v).ok
                 THEN Outcome("panic", "none", accts, wits)
             ELSE IF flt = "add_to_blackhole"
                 THEN Outcome("panic", "add_to_blackhole", accts, wits)
             ELSE IF flt = "put_account"
                 THEN Outcome("success", "put_account",
                              add_to_blackhole(accts, contract_fee), wits)
             ELSE Outcome("success", "none",
                          put_key(add_to_blackhole(accts, contract_fee), c.owner_address,
                                  adjust_balance(owner_acct, neg.v).v),
                          wits)
    ELSE IF flt = "put_account"
        THEN Outcome("success", "put_account", accts, wits)
    ELSE Outcome("success", "none", put_key(accts, c.owner_address, owner_acct), wits)

\* Mutant of AccountPermissionUpdate_execute_fee: the owner is debited and the
\* blackhole is not credited.
AccountPermissionUpdate_execute_fee_nocredit(c, contract_fee, owner_acct, accts, wits, flt, neg) ==
    IF contract_fee # 0
        THEN IF ~neg.ok \/ ~adjust_balance(owner_acct, neg.v).ok
                 THEN Outcome("panic", "none", accts, wits)
             ELSE IF flt = "put_account"
                 THEN Outcome("err", "put_account", accts, wits)
             ELSE Outcome("success", "none",
                          put_key(accts, c.owner_address, adjust_balance(owner_acct, neg.v).v),
                          wits)
    ELSE IF flt = "put_account"
        THEN Outcome("err", "put_account", accts, wits)
    ELSE Outcome("success", "none", put_key(accts, c.owner_address, owner_acct), wits)

\* Lines 167-176: the fee transfer and the write of the account. neg is the
\* outcome of -ctx.contract_fee.
AccountPermissionUpdate_execute_fee(c, contract_fee, owner_acct, accts, wits, flt, neg) ==
    IF contract_fee # 0
        THEN IF ~neg.ok \/ ~adjust_balance(owner_acct, neg.v).ok
                 THEN Outcome("panic", "none", accts, wits)
             ELSE IF flt = "add_to_blackhole"
                 THEN Outcome("panic", "add_to_blackhole", accts, wits)
             ELSE IF flt = "put_account"
                 THEN Outcome("err", "put_account", add_to_blackhole(accts, contract_fee), wits)
             ELSE Outcome("success", "none",
                          put_key(add_to_blackhole(accts, contract_fee), c.owner_address,
                                  adjust_balance(owner_acct, neg.v).v),
                          wits)
    ELSE IF flt = "put_account"
        THEN Outcome("err", "put_account", accts, wits)
    ELSE Outcome("success", "none", put_key(accts, c.owner_address, owner_acct), wits)

\* execute: the outcome and the state-db as execute leaves it
AccountPermissionUpdate_execute(c, contract_fee, accts, wits, flt, neg) ==
    IF ~Address_try_from(c.owner_address).ok \/ ~must_get(accts, c.owner_address).ok
        THEN Outcome("panic", "none", accts, wits)
    ELSE LET owner_acct == UpdatePermissions(c, must_get(accts, c.owner_address).v)
         IN  IF c.witness.some
                 THEN IF ~must_get(wits, c.owner_address).ok \/ Len(c.witness.v.keys) = 0
                          THEN Outcome("panic", "none", accts, wits)
                      ELSE IF flt = "put_witness"
                          THEN Outcome("err", "put_witness", accts, wits)
                      ELSE AccountPermissionUpdate_execute_fee(
                               c, contract_fee, owner_acct, accts,
                               put_key(wits, c.owner_address,
                                       [must_get(wits, c.owner_address).v EXCEPT
                                           !.signature_key = c.witness.v.keys[1].address]),
                               flt, neg)
                 ELSE AccountPermissionUpdate_execute_fee(
                          c, contract_fee, owner_acct, accts, wits, flt, neg)

\* ------------------------------------------------------------ inputs

EmptyName == Str("", 0)
Alice == Str("alice", 5)
Bob == Str("bob", 3)
Carol == Str("carol", 5)
\* names at and just over the 200-byte limit
Name200 == Str("long200", 200)
Name201 == Str("long201", 201)

AccountNames == {EmptyName, Alice, Bob, Carol, Name200, Name201}

Key(address, weight) == [address |-> address, weight |-> weight]

Permission(threshold, keys, name, operations) ==
    [threshold |-> threshold, keys |-> keys, name |-> name,
     operations |-> operations, parent_id |-> 0]

\* 32 bytes; byte 0 carries the bits given, byte 5 bit 6 is type code 46
Operations32(byte0) == [i \in 1..32 |-> IF i = 1 THEN byte0 ELSE IF i = 6 THEN 64 ELSE 0]
\* bits 0 and 1: AccountCreateContract, TransferContract
OpsDefined == Operations32(3)
\* bit 7: no contract type has code 7
OpsUndefined == Operations32(128)
OpsShort == [i \in 1..31 |-> 0]

OwnerPerm == Permission(1, <<Key(A1, 1)>>, Str("owner", 5), <<>>)
OwnerPerm2 == Permission(2, <<Key(A2, 1), Key(A1, 2)>>, Str("owner", 5), <<>>)
OwnerPermBad == Permission(0, <<Key(A1, 1)>>, Str("owner", 5), <<>>)
ActivePerm == Permission(2, <<Key(A1, 1), Key(A2, 1)>>, Str("active", 6), OpsDefined)
ActivePerm2 == Permission(1, <<Key(A2, 1)>>, Str("active2", 7), OpsDefined)
ActivePermBad == Permission(1, <<Key(A1, 1), Key(A1, 1)>>, Str("active", 6), OpsDefined)
WitnessPerm == Permission(1, <<Key(A3, 1)>>, Str("witness", 7), <<>>)
WitnessPermBad == Permission(1, <<>>, Str("witness", 7), <<>>)

\* one more active permission than MAX_NUM_OF_ACTIVE_PERMISSIONS allows
TooManyActives == [i \in 1..(MAX_NUM_OF_ACTIVE_PERMISSIONS + 1) |-> ActivePerm2]

\* the (owner, witness, actives) parts of the permission updates submitted for
\* a plain account ...
PlainShapes ==
    { <<None, None, <<ActivePerm>> >>,
      <<Some(OwnerPerm), None, <<ActivePerm>> >>,
      <<Some(OwnerPerm2), None, <<ActivePerm2, ActivePerm>> >>,
      <<Some(OwnerPerm), Some(WitnessPerm), <<ActivePerm>> >>,
      <<Some(OwnerPermBad), None, <<ActivePerm>> >>,
      <<Some(OwnerPerm), None, <<>> >>,
      <<Some(OwnerPerm), None, <<ActivePermBad>> >>,
      <<Some(OwnerPerm), None, TooManyActives>> }

\* ... and for a witness
WitnessShapes ==
    { <<Some(OwnerPerm), None, <<ActivePerm>> >>,
      <<Some(OwnerPerm), Some(WitnessPerm), <<ActivePerm>> >>,
      <<Some(OwnerPerm), Some(WitnessPermBad), <<ActivePerm>> >>,
      <<Some(OwnerPermBad), Some(WitnessPermBad), <<ActivePerm>> >> }

AccountUpdate(a, n) ==
    [type |-> "AccountUpdateContract", owner_address |-> a, account_name |-> n]

AccountUpdateContracts ==
    { AccountUpdate(A1, n) : n \in AccountNames }
    \cup { AccountUpdate(A2, Carol), AccountUpdate(A2, Alice), AccountUpdate(A3, Carol),
           AccountUpdate(Malformed, Carol), AccountUpdate(Malformed, Name201) }

PermissionUpdate(a, sh) ==
    [type |-> "AccountPermissionUpdateContract", owner_address |-> a,
     owner |-> sh[1], witness |-> sh[2], actives |-> sh[3]]

AccountPermissionUpdateContracts ==
    { PermissionUpdate(A1, sh) : sh \in PlainShapes }
    \cup { PermissionUpdate(A2, sh) : sh \in WitnessShapes }
    \cup { PermissionUpdate(a, <<Some(OwnerPerm), None, <<ActivePerm>> >>) :
             a \in {BLACKHOLE, A3, Malformed} }

NoContract == [type |-> "none"]

\* values of the chain parameter AccountPermissionUpdateFee
FeeValues == {MinI64, -1, 0, 2}

Account(name, balance) ==
    [name |-> name, balance |-> balance, owner_permission |-> None,
     active_permissions |-> <<>>]

\* the chain parameters a behaviour runs under: every fee with multisig on,
\* one fee with multisig off
ChainParameters ==
    { p \in [AllowUpdateAccountName : {0, 1}, AllowMultisig : {0, 1},
             AccountPermissionUpdateFee : FeeValues] :
        p.AllowMultisig = 0 => p.AccountPermissionUpdateFee = 2 }

\* the account A1 at the start: unnamed or named, with a balance below the
\* positive fee, equal to it, or at the top of i64
InitialA1 ==
    { Account(EmptyName, 1), Account(EmptyName, 2), Account(Alice, 2),
      Account(EmptyName, MaxI64) }

\* the account A1 and the balance of the blackhole account at the start: the
\* blackhole holds more than the positive fee, or nothing yet
InitialBalances ==
    (InitialA1 \X {3}) \cup {<<Account(EmptyName, 2), 0>>}

\* a fresh TransactionContext
NewContext == [contract_fee |-> 0]

NoResult == [kind |-> "none", msg |-> ""]
NotChecked == [ok |-> FALSE, e |-> "not checked"]
NoPermission == Permission(0, <<>>, EmptyName, <<>>)

\* ------------------------------------------------------------ the Manager

\* The Manager discards the pending writes of an execute that returned an
\* error, and keeps those of one that succeeded.
discard_on_error(kind, before, after) == IF kind = "err" THEN before ELSE after

ResultOfValidate(res) ==
    IF res.ok THEN [kind |-> "ok", msg |-> ""] ELSE [kind |-> "err", msg |-> res.e]

ResultOfExecute(o) ==
    [kind |-> o.kind,
     msg |-> IF o.kind = "err" THEN "storage error" ELSE ""]

ManagerInit ==
    /\ params \in ChainParameters
    /\ \E start \in InitialBalances :
          accounts = [a \in Addresses |->
                        CASE a = BLACKHOLE -> Some(Account(EmptyName, start[2]))
                          [] a = A1 -> Some(start[1])
                          [] a = A2 -> Some(Account(Bob, 5))
                          [] OTHER -> None]
    /\ witnesses = [a \in Addresses |->
                      IF a = A2 THEN Some([signature_key |-> A2]) ELSE None]
    /\ ctx = NewContext
    /\ tx = NoContract
    /\ pc = "idle"
    /\ last = "none"
    /\ result = NoResult
    /\ fault = "none"
    /\ ntx = 0

ValidateAccountUpdate ==
    /\ pc = "idle"
    /\ ntx < MaxTx
    /\ \E c \in AccountUpdateContracts, flt \in {"none", "get_account"} :
          LET r == AccountUpdate_validate(c, accounts, params, flt)
          IN  /\ tx' = c
              /\ ctx' = NewContext
              /\ result' = ResultOfValidate(r.res)
              /\ fault' = r.io
              /\ pc' = IF r.res.ok THEN "validated" ELSE "idle"
    /\ last' = "validate"
    /\ ntx' = ntx + 1
    /\ UNCHANGED <<accounts, witnesses, params, permVars>>

ExecuteAccountUpdate ==
    /\ pc = "validated"
    /\ tx.type = "AccountUpdateContract"
    /\ \E flt \in {"none", "put_account"} :
          LET o == AccountUpdate_execute(tx, accounts, flt)
          IN  /\ accounts' = discard_on_error(o.kind, accounts, o.accounts)
              /\ result' = ResultOfExecute(o)
              /\ fault' = o.io
              /\ pc' = IF o.kind = "panic" THEN "crashed" ELSE "idle"
    /\ last' = "execute"
    /\ UNCHANGED <<witnesses, params, ctx, tx, ntx, permVars>>

\* Mutant of ValidateAccountPermissionUpdate: validate stores the supplied owner
\* permission in the account while it is still checking.
ValidateAccountPermissionUpdate_writes ==
    /\ pc = "idle"
    /\ ntx < MaxTx
    /\ \E c \in AccountPermissionUpdateContracts,
          flt \in {"none", "get_account", "get_witness"} :
          LET r == AccountPermissionUpdate_validate(c, accounts, witnesses, params, flt)
          IN  /\ tx' = c
              /\ ctx' = IF r.res.ok THEN [NewContext EXCEPT !.contract_fee = r.res.v]
                                    ELSE NewContext
              /\ result' = ResultOfValidate(r.res)
              /\ fault' = r.io
              /\ pc' = IF r.res.ok THEN "validated" ELSE "idle"
              /\ accounts' =
                    IF Address_try_from(c.owner_address).ok
                       /\ accounts[c.owner_address].some /\ c.owner.some
                        THEN put_key(accounts, c.owner_address,
                                     [accounts[c.owner_address].v EXCEPT
                                         !.owner_permission = Some(ToOwnerPermission(c.owner.v))])
                        ELSE accounts
    /\ last' = "validate"
    /\ ntx' = ntx + 1
    /\ UNCHANGED <<witnesses, params, permVars>>

ValidateAccountPermissionUpdate ==
    /\ pc = "idle"
    /\ ntx < MaxTx
    /\ \E c \in AccountPermissionUpdateContracts,
          flt \in {"none", "get_account", "get_witness"} :
          LET r == AccountPermissionUpdate_validate(c, accounts, witnesses, params, flt)
          IN  /\ tx' = c
              /\ ctx' = IF r.res.ok THEN [NewContext EXCEPT !.contract_fee = r.res.v]
                                    ELSE NewContext
              /\ result' = ResultOfValidate(r.res)
              /\ fault' = r.io
              /\ pc' = IF r.res.ok THEN "validated" ELSE "idle"
    /\ last' = "validate"
    /\ ntx' = ntx + 1
    /\ UNCHANGED <<accounts, witnesses, params, permVars>>

ExecuteAccountPermissionUpdate ==
    /\ pc = "validated"
    /\ tx.type = "AccountPermissionUpdateContract"
    /\ \E flt \in {"none", "put_witness", "add_to_blackhole", "put_account"},
          neg \in NegOutcomes(ctx.contract_fee) :
          LET o == AccountPermissionUpdate_execute(tx, ctx.contract_fee, accounts,
                                                   witnesses, flt, neg)
          IN  /\ accounts' = discard_on_error(o.kind, accounts, o.accounts)
              /\ witnesses' = discard_on_error(o.kind, witnesses, o.witnesses)
              /\ result' = ResultOfExecute(o)
              /\ fault' = o.io
              /\ pc' = IF o.kind = "panic" THEN "crashed" ELSE "idle"
    /\ last' = "execute"
    /\ UNCHANGED <<params, ctx, tx, ntx, permVars>>

Init ==
    /\ ManagerInit
    /\ perm = NoPermission
    /\ perm_type = "Owner"
    /\ verdict = NotChecked

Next ==
    \/ ValidateAccountUpdate
    \/ ExecuteAccountUpdate
    \/ ValidateAccountPermissionUpdate
    \/ ExecuteAccountPermissionUpdate

Spec == Init /\ [][Next]_vars

\* ------------------------------------------------ check_permission on its own

\* six distinct well-formed key addresses
KeyAddress(i) == Bytes("k" \o ToString(i), ADDRESS_LEN)
DistinctKeys(n) == [i \in 1..n |-> Key(KeyAddress(i), 1)]

KeyPool == { Key(a, w) : a \in {A1, A2, Malformed}, w \in {0, 1, MaxI64} }

\* every key list of at most MaxKeyLen keys, and lists at and over the limit
KeyLists ==
    UNION { [1..n -> KeyPool] : n \in 0..MaxKeyLen }
    \cup { DistinctKeys(MAX_NUM_OF_KEYS_IN_PERMISSION),
           DistinctKeys(MAX_NUM_OF_KEYS_IN_PERMISSION + 1) }

PermissionInputs ==
    [threshold : {0, 1, 2, 3},
     keys : KeyLists,
     name : {Str("name32", 32), Str("name33", 33)},
     operations : {<<>>, OpsDefined, OpsUndefined, OpsShort},
     parent_id : {0, 1}]

PermInit ==
    /\ perm \in PermissionInputs
    /\ perm_type \in PermissionTypes
    /\ verdict = NotChecked
    /\ params = [AllowUpdateAccountName |-> 0, AllowMultisig |-> 1,
                 AccountPermissionUpdateFee |-> 0]
    /\ accounts = [a \in Addresses |-> None]
    /\ witnesses = [a \in Addresses |-> None]
    /\ ctx = NewContext
    /\ tx = NoContract
    /\ pc = "idle"
    /\ last = "none"
    /\ result = NoResult
    /\ fault = "none"
    /\ ntx = 0

CheckPermission ==
    /\ verdict = NotChecked
    /\ verdict' = check_permission(perm, perm_type)
    /\ UNCHANGED <<perm, perm_type, managerVars>>

PermNext == CheckPermission

SpecPerm == PermInit /\ [][PermNext]_vars

\* ------------------------------------------------------------ properties

IsUpdate == tx.type = "AccountUpdateContract"
IsPermissionUpdate == tx.type = "AccountPermissionUpdateContract"

Balance(accts, a) == accts[a].v.balance

RECURSIVE SumBalances(_, _)
SumBalances(accts, as) ==
    IF as = {} THEN 0
    ELSE LET a == CHOOSE x \in as : TRUE
         IN  (IF accts[a].some THEN accts[a].v.balance ELSE 0)
             + SumBalances(accts, as \ {a})

\* the balances of all accounts, the blackhole account among them
TotalBalance(accts) == SumBalances(accts, Addresses)

\* C1: every successful execute leaves the total of all balances (the
\* blackhole's included) as it was, whoever the owner is.
C1_TotalConserved ==
    [][(last' = "execute" /\ result'.kind = "success")
        => TotalBalance(accounts') = TotalBalance(accounts)]_vars

\* C2: a contract that validate rejects leaves accounts, witnesses and chain
\* parameters (so also the blackhole balance) exactly as they were.
C2_RejectedValidateWritesNothing ==
    [][(last' = "validate" /\ result'.kind = "err")
        => (accounts' = accounts /\ witnesses' = witnesses /\ params' = params)]_vars

C2_Witness ==
    /\ last = "validate"
    /\ IsPermissionUpdate
    /\ result = [kind |-> "err", msg |-> "insufficient balance to set account permission"]

C4_ExecuteSucceedsAfterValidate ==
    (last = "execute" /\ fault = "none") => result.kind = "success"

\* C5: a storage failure met in validate or execute is returned as an error.
C5_StorageFailureReturned ==
    fault # "none" => result.kind = "err"

\* C6: a name update accepted by validate under AllowUpdateAccountName = 0 asks
\* for a name that no account other than the owner holds.
C6_AcceptedNameIsFree ==
    (pc = "validated" /\ IsUpdate /\ params.AllowUpdateAccountName = 0)
        => \A a \in Addresses \ {tx.owner_address} :
              accounts[a].some => accounts[a].v.name # tx.account_name

C6_Witness ==
    /\ pc = "validated"
    /\ IsUpdate
    /\ params.AllowUpdateAccountName = 0
    /\ tx.account_name = Carol
    /\ accounts[A2].v.name = Bob

\* the owner of the name update just validated has a record with a name
OwnerIsNamed ==
    /\ last = "validate"
    /\ IsUpdate
    /\ Address_try_from(tx.owner_address).ok
    /\ accounts[tx.owner_address].some
    /\ accounts[tx.owner_address].v.name.len # 0

\* C7 as claimed: under AllowUpdateAccountName = 0 a name update of a named
\* account is rejected with "account name already exists".
C7_NamedOwnerDiagnostic ==
    (params.AllowUpdateAccountName = 0 /\ OwnerIsNamed)
        => result = [kind |-> "err", msg |-> "account name already exists"]

C7_RejectedNamed ==
    OwnerIsNamed =>
        /\ result.kind = "err"
        /\ result.msg =
              IF tx.account_name.len > 200 THEN "invalid account name"
              ELSE IF fault = "get_account" THEN "db query error"
              ELSE "account name already exists"

\* C7 amended: under AllowUpdateAccountName = 0 a name update of a named account
\* is rejected, with "invalid account name" when the requested name is over 200
\* bytes, with "db query error" when the account read fails and with "account
\* name already exists" otherwise; and no step changes a non-empty name.
C7_NamedOwnerRejected ==
    [][params.AllowUpdateAccountName = 0
        => /\ C7_RejectedNamed'
           /\ \A a \in Addresses :
                 (accounts[a].some /\ accounts[a].v.name.len # 0)
                     => (accounts'[a].some /\ accounts'[a].v.name = accounts[a].v.name)]_vars

\* a named account asked for a name over the limit
C7_Witness ==
    /\ params.AllowUpdateAccountName = 0
    /\ OwnerIsNamed
    /\ tx.account_name = Name201
    /\ result.msg = "invalid account name"

RECURSIVE SumWeights(_, _)
SumWeights(keys, i) == IF i > Len(keys) THEN 0 ELSE keys[i].weight + SumWeights(keys, i + 1)

\* C8: a descriptor check_permission accepts has weights summing to at least
\* its threshold, pairwise distinct key addresses, positive weights and a
\* positive threshold.
C8_AcceptedPermissionWellFormed ==
    verdict.ok =>
        /\ SumWeights(perm.keys, 1) >= perm.threshold
        /\ \A i, j \in 1..Len(perm.keys) : i # j => perm.keys[i].address # perm.keys[j].address
        /\ \A i \in 1..Len(perm.keys) : perm.keys[i].weight > 0
        /\ perm.threshold > 0

C8_Witness ==
    /\ verdict.ok
    /\ perm_type = "Active"
    /\ Len(perm.keys) = 2
    /\ perm.threshold = 2

\* C9: a successful permission update with fee F > 0 on a plain account other
\* than the blackhole debits the owner by F, credits the blackhole by F and
\* stores the owner and active descriptors as supplied, in order.
C9_PermissionUpdateEffect ==
    [][(/\ last' = "execute"
        /\ IsPermissionUpdate
        /\ result'.kind = "success"
        /\ params.AccountPermissionUpdateFee > 0
        /\ ~witnesses[tx.owner_address].some
        /\ tx.owner_address # BLACKHOLE)
        => LET F == params.AccountPermissionUpdateFee
               acct == accounts'[tx.owner_address].v
           IN  /\ acct.balance = Balance(accounts, tx.owner_address) - F
               /\ Balance(accounts', BLACKHOLE) = Balance(accounts, BLACKHOLE) + F
               /\ acct.owner_permission.some
               /\ acct.owner_permission.v.threshold = tx.owner.v.threshold
               /\ acct.owner_permission.v.keys = tx.owner.v.keys
               /\ Len(acct.active_permissions) = Len(tx.actives)
               /\ \A i \in 1..Len(tx.actives) :
                     /\ acct.active_permissions[i].threshold = tx.actives[i].threshold
                     /\ acct.active_permissions[i].keys = tx.actives[i].keys
                     /\ acct.active_permissions[i].operations = tx.actives[i].operations
                     /\ acct.active_permissions[i].permission_name = tx.actives[i].name]_vars

C9_Witness ==
    /\ last = "execute"
    /\ IsPermissionUpdate
    /\ result.kind = "success"
    /\ params.AccountPermissionUpdateFee = 2
    /\ tx.owner_address = A1
    /\ Len(tx.actives) = 2
    /\ Balance(accounts, A1) = MaxI64 - 2

\* C10: no step lowers the blackhole account's balance.
C10_BlackholeNeverDecreases ==
    [][Balance(accounts', BLACKHOLE) >= Balance(accounts, BLACKHOLE)]_vars


\* the permission update just validated passes every test of validate that
\* comes before the balance test, and met no storage failure
ValidButForBalance ==
    /\ last = "validate"
    /\ IsPermissionUpdate
    /\ fault = "none"
    /\ AccountPermissionUpdate_validate(
           tx, accounts, witnesses,
           [params EXCEPT !.AccountPermissionUpdateFee = MinI64], "none").res.ok

\* a balance below the fee is rejected with the balance diagnostic, a balance
\* equal to the fee or above it is accepted
BalanceTestDecides ==
    ValidButForBalance =>
        IF Balance(accounts, tx.owner_address) < params.AccountPermissionUpdateFee
            THEN result = [kind |-> "err",
                           msg |-> "insufficient balance to set account permission"]
            ELSE result.kind = "ok"

\* C11: no account balance is ever negative; a permission update whose owner
\* balance is below the fee is rejected with "insufficient balance to set
\* account permission", one whose balance equals the fee is accepted.
C11_BalancesNonNegative ==
    /\ \A a \in Addresses : accounts[a].some => accounts[a].v.balance >= 0
    /\ BalanceTestDecides


\* the records of the owner of tx already hold what an execute of tx stores:
\* tx has been applied before
AppliedBefore ==
    /\ accounts[tx.owner_address].v.owner_permission = Some(ToOwnerPermission(tx.owner.v))
    /\ accounts[tx.owner_address].v.active_permissions =
          [i \in 1..Len(tx.actives) |-> ToActivePermission(tx.actives[i])]
    /\ tx.witness.some =>
          witnesses[tx.owner_address].v.signature_key = tx.witness.v.keys[1].address

\* C12: a successful execute of a permission update on records that already
\* hold what it stores (the same update applied a second time) leaves the
\* owner permission, the active permissions and the witness signature key as
\* they are, and changes nothing in the owner's account but the balance, which
\* it lowers by the fee once more.
C12_SecondRunChangesOnlyBalance ==
    [][(/\ last' = "execute"
        /\ IsPermissionUpdate
        /\ result'.kind = "success"
        /\ AppliedBefore)
        => /\ accounts'[tx.owner_address].v =
                 [accounts[tx.owner_address].v EXCEPT
                     !.balance = @ - params.AccountPermissionUpdateFee]
           /\ witnesses'[tx.owner_address] = witnesses[tx.owner_address]]_vars

\* the one valid update of the witness A2 has run twice under the fee 2
C12_Witness ==
    /\ last = "execute"
    /\ IsPermissionUpdate
    /\ result.kind = "success"
    /\ tx.owner_address = A2
    /\ tx.witness.some
    /\ params.AccountPermissionUpdateFee = 2
    /\ Balance(accounts, A2) = 1
    /\ witnesses[A2].v.signature_key = A3


\* C13: an execute of a permission update changes the name of no account.
C13_PermissionUpdateKeepsNames ==
    [][(last' = "execute" /\ IsPermissionUpdate)
        => \A a \in Addresses :
              /\ accounts'[a].some = accounts[a].some
              /\ accounts[a].some => accounts'[a].v.name = accounts[a].v.name]_vars

\* a permission update of the named account A2 has succeeded
C13_Witness ==
    /\ last = "execute"
    /\ IsPermissionUpdate
    /\ result.kind = "success"
    /\ tx.owner_address = A2
    /\ accounts[A2].v.owner_permission.some
    /\ accounts[A2].v.name = Bob


\* the permission update just validated passed the gate, the address test, the
\* read of the account and the owner-permission test
PassedOwnerPresent ==
    /\ last = "validate"
    /\ IsPermissionUpdate
    /\ params.AllowMultisig # 0
    /\ Address_try_from(tx.owner_address).ok
    /\ fault # "get_account"
    /\ accounts[tx.owner_address].some
    /\ tx.owner.some

\* a witness without a witness permission, a plain account with one
WitnessMismatchDiagnostic ==
    /\ (witnesses[tx.owner_address].some /\ ~tx.witness.some)
          => result = [kind |-> "err", msg |-> "missing witness permission"]
    /\ (~witnesses[tx.owner_address].some /\ tx.witness.some)
          => result = [kind |-> "err", msg |-> "account is not a witness"]

\* C14 as claimed: a permission update that passed the gate, address, account
\* and owner-present tests is rejected with "missing witness permission" when
\* the owner is a witness and no witness permission is supplied, and with
\* "account is not a witness" when the owner is no witness and one is supplied.
C14_WitnessMismatch ==
    PassedOwnerPresent => WitnessMismatchDiagnostic

\* C14 amended: the same, when the read of the witness record succeeds; when
\* that read fails the update is rejected with "error while querying db".
C14_WitnessMismatchAfterRead ==
    PassedOwnerPresent =>
        IF fault = "get_witness"
            THEN result = [kind |-> "err", msg |-> "error while querying db"]
            ELSE WitnessMismatchDiagnostic

\* the plain account A1 supplied a witness permission
C14_Witness ==
    /\ PassedOwnerPresent
    /\ tx.owner_address = A1
    /\ tx.witness.some
    /\ fault = "none"
    /\ result.msg = "account is not a witness"


\* C15: while AllowMultisig = 0 every permission update is rejected with
\* "multisig is disabled on chain", and no step changes an owner permission,
\* the active permissions of an account or the signature key of a witness.
C15_MultisigGate ==
    [][params.AllowMultisig = 0
        => /\ (last' = "validate" /\ IsPermissionUpdate')
                 => result' = [kind |-> "err", msg |-> "multisig is disabled on chain"]
           /\ \A a \in Addresses :
                 /\ accounts'[a].some = accounts[a].some
                 /\ accounts[a].some =>
                       /\ accounts'[a].v.owner_permission = accounts[a].v.owner_permission
                       /\ accounts'[a].v.active_permissions = accounts[a].v.active_permissions
           /\ witnesses' = witnesses]_vars

\* under the closed gate a permission update with a malformed owner address
\* was rejected after a first contract had run
C15_Witness ==
    /\ params.AllowMultisig = 0
    /\ last = "validate"
    /\ IsPermissionUpdate
    /\ tx.owner_address = Malformed
    /\ ntx = 2
    /\ result = [kind |-> "err", msg |-> "multisig is disabled on chain"]


\* The diagnostic of the lowest-numbered rule of the thirteen that perm
\* violates under perm_type, every rule read over the whole descriptor.
RuleOrderVerdict(p, type) ==
    LET n == Len(p.keys)
    IN  IF n > MAX_NUM_OF_KEYS_IN_PERMISSION
            THEN Err("number of keys in permission should not be greater than "
                     \o ToString(MAX_NUM_OF_KEYS_IN_PERMISSION))
        ELSE IF n = 0
            THEN Err("no permission key provided")
        ELSE IF p.threshold <= 0
            THEN Err("permission threshold should be greater than 0")
        ELSE IF p.name.len > 32
            THEN Err("permission name is too long")
        ELSE IF p.parent_id # 0
            THEN Err("parent_id must be 0(owner)")
        ELSE IF \E i \in 1..n : ~Address_try_from(p.keys[i].address).ok
            THEN Err("invalid key address")
        ELSE IF \E i \in 1..n : p.keys[i].weight <= 0
            THEN Err("weight of key should be greater than 0")
        ELSE IF SumWeights(p.keys, 1) > MaxI64
            THEN Err("math overflow")
        ELSE IF \E i, j \in 1..n : i # j /\ p.keys[i].address = p.keys[j].address
            THEN Err("duplicated address in keys")
        ELSE IF SumWeights(p.keys, 1) < p.threshold
            THEN Err("sum of all weights should be greater than threshold")
        ELSE IF type \in {"Owner", "Witness"} /\ Len(p.operations) # 0
            THEN Err("no operations vec needed")
        ELSE IF type = "Active" /\ Len(p.operations) # 32
            THEN Err("operations vec length must be 32")
        ELSE IF type = "Active" /\ UndefinedOperation(p.operations) # -1
            THEN Err("operation of " \o ToString(UndefinedOperation(p.operations))
                     \o " is undefined")
        ELSE Ok("unit")

\* C16: the diagnostic check_permission returns is that of the lowest-numbered
\* rule the descriptor violates: a key of weight <= 0 followed by a key with
\* an unparsable address yields "invalid key address".
C16_LowestRuleDiagnostic ==
    verdict # NotChecked => verdict = RuleOrderVerdict(perm, perm_type)


\* perm violates none of the rules 1 to 8
PassesRules1to8 ==
    /\ Len(perm.keys) <= MAX_NUM_OF_KEYS_IN_PERMISSION
    /\ Len(perm.keys) # 0
    /\ perm.threshold > 0
    /\ perm.name.len <= 32
    /\ perm.parent_id = 0
    /\ \A i \in 1..Len(perm.keys) :
          Address_try_from(perm.keys[i].address).ok /\ perm.keys[i].weight > 0
    /\ SumWeights(perm.keys, 1) <= MaxI64

HasDuplicateAddress ==
    \E i, j \in 1..Len(perm.keys) : i # j /\ perm.keys[i].address = perm.keys[j].address

\* C17: a descriptor that passes rules 1 to 8, repeats a key address and has a
\* weight sum below its threshold gets "duplicated address in keys", not the
\* weight-sum diagnostic.
C17_DuplicateBeforeWeightSum ==
    (/\ verdict # NotChecked
     /\ PassesRules1to8
     /\ HasDuplicateAddress
     /\ SumWeights(perm.keys, 1) < perm.threshold)
        => verdict = Err("duplicated address in keys")

\* two keys of weight 1 with the same address under the threshold 3
C17_Witness ==
    /\ verdict = Err("duplicated address in keys")
    /\ PassesRules1to8
    /\ Len(perm.keys) = 2
    /\ perm.keys[1] = perm.keys[2]
    /\ SumWeights(perm.keys, 1) = 2
    /\ perm.threshold = 3


\* the permission update just validated is one of a witness, carries a witness
\* permission and a permitted number of active permissions, and met no storage
\* failure: validate came to check its descriptors
DescriptorsChecked ==
    /\ PassedOwnerPresent
    /\ fault = "none"
    /\ witnesses[tx.owner_address].some
    /\ tx.witness.some
    /\ Len(tx.actives) \in 1..MAX_NUM_OF_ACTIVE_PERMISSIONS

\* C18: for a witness account validate checks the owner descriptor, then the
\* active descriptors in sequence, then the witness descriptor: when the owner
\* (or an active) descriptor and the witness descriptor are both invalid, the
\* diagnostic is that of the owner (or active) descriptor.
C18_OwnerActivesBeforeWitness ==
    (/\ DescriptorsChecked
     /\ ~check_permission(tx.witness.v, "Witness").ok
     /\ ~check_permission(tx.owner.v, "Owner").ok \/ ~check_actives(tx.actives, 1).ok)
        => result = [kind |-> "err",
                     msg |-> IF ~check_permission(tx.owner.v, "Owner").ok
                                 THEN check_permission(tx.owner.v, "Owner").e
                                 ELSE check_actives(tx.actives, 1).e]


\* C19: an execute of a permission update moves value only when
\* ctx.contract_fee > 0: with a fee of zero or below, the owner's balance and
\* the blackhole's balance are after execute what they were before.
C19_NoTransferWithoutPositiveFee ==
    [][(last' = "execute" /\ IsPermissionUpdate /\ ctx.contract_fee <= 0)
        => /\ Balance(accounts', tx.owner_address) = Balance(accounts, tx.owner_address)
           /\ Balance(accounts', BLACKHOLE) = Balance(accounts, BLACKHOLE)]_vars


\* C20: with AllowUpdateAccountName = 0, from a start where no two accounts
\* share a non-empty name, no two distinct accounts ever hold the same
\* non-empty name.
C20_NamesStayUnique ==
    params.AllowUpdateAccountName = 0
        => \A a, b \in Addresses :
              (a # b /\ accounts[a].some /\ accounts[b].some
                     /\ accounts[a].v.name.len # 0)
                  => accounts[a].v.name # accounts[b].v.name

\* under the closed gate the unnamed account A1 was given a name beside the
\* named account A2, as the second contract of the behaviour
C20_Witness ==
    /\ params.AllowUpdateAccountName = 0
    /\ last = "execute"
    /\ IsUpdate
    /\ result.kind = "success"
    /\ tx.owner_address = A1
    /\ accounts[A1].v.name = Carol
    /\ accounts[A2].v.name = Bob
    /\ ntx = 2

====
